---- MODULE Spec2Model ----
(***************************************************************************)
(* Model of the QInt fixed-point value type (qint/qint.py) and of the      *)
(* rounding / scaling utilities it calls.  A caller holds one QInt (acc)   *)
(* and applies an operator or method of QInt to it; the call, its operands *)
(* and its outcome (a value or a raised exception) are kept in last.  When *)
(* the call returned a QInt the caller may bind it (Keep) and go on with   *)
(* it; a raised exception ends the caller's run.  SpecWide is the same     *)
(* caller working on mantissas of any size (wacc, wlast).                  *)
(***************************************************************************)
EXTENDS Integers, Sequences, FiniteSets

VARIABLES acc, pc, last, origin, wacc, wlast, wsteps

vars == <<acc, pc, last, origin, wacc, wlast, wsteps>>

(* ------------------------------ bounds -------------------------------- *)

\* largest |mantissa| of a value the caller keeps
MaxMantissa == 12
\* largest |mantissa| / |integer| of the other operand
MaxOperand == 3
\* largest precision of an input value
MaxPrec == 1
\* largest target precision handed to scale / add / sub / mul / div
MaxTarg == 2
\* largest |exponent| handed to __pow__
MaxExp == 2
\* largest small |mantissa| / |integer| among the wide operands
MaxWideSmall == 2
\* how many results the caller of the wide operations binds in a row
MaxWideSteps == 1
\* largest number of limbs of a wide mantissa the caller binds
MaxWideLimbs == 5

(* ------------------------------ helpers ------------------------------- *)

Abs(x) == IF x < 0 THEN -x ELSE x

Max(a, b) == IF a >= b THEN a ELSE b

RECURSIVE IntPow(_, _)
\* Python's int ** non-negative int (0 ** 0 = 1)
IntPow(b, e) == IF e = 0 THEN 1 ELSE b * IntPow(b, e - 1)

Pow10(k) == IntPow(10, k)

\* Python's // on ints: floor of the quotient, for either sign of the divisor
PyFloorDiv(a, b) == IF b > 0 THEN a \div b ELSE (-a) \div (-b)

\* Python's % on ints: the remainder has the sign of the divisor
PyMod(a, b) == a - b * PyFloorDiv(a, b)

RECURSIVE Gcd(_, _)
Gcd(a, b) == IF b = 0 THEN a ELSE Gcd(b, a % b)

(* ------------------------- values and outcomes ------------------------ *)

QInt(value, precision) == [kind |-> "QInt", value |-> value, precision |-> precision]

PyInt(value) == [kind |-> "int", value |-> value]

Fraction(n, d) == [kind |-> "Fraction", numerator |-> n, denominator |-> d]

PyFloat == [kind |-> "float"]

PyBool(b) == [kind |-> "bool", value |-> b]

PyNone == [kind |-> "None"]

QIntPrecisionError(precision1, precision2) ==
    [kind |-> "QIntPrecisionError", precision1 |-> precision1, precision2 |-> precision2]

QIntTypeError(operation) == [kind |-> "QIntTypeError", operation |-> operation]

ZeroDivisionError == [kind |-> "ZeroDivisionError"]

TypeError == [kind |-> "TypeError"]

\* a QInt whose value field holds a Python float: int ** negative int is 1 / int ** |e|
QIntFloatValue(reciprocal, precision) ==
    [kind |-> "QInt(float)", reciprocal_of |-> reciprocal, precision |-> precision]

Raised(out) ==
    out.kind \in {"QIntPrecisionError", "QIntTypeError", "ZeroDivisionError", "TypeError"}

(* ------------------------------ utilities ----------------------------- *)

\* ut.banker_division: round-half-even integer division
banker_division(numerator, denominator) ==
    IF denominator = 0 THEN ZeroDivisionError
    ELSE LET doubledNum == 2 * numerator
             doubledDenom == 2 * denominator
             q == PyFloorDiv(doubledNum, doubledDenom)
             r == Abs(PyMod(doubledNum, doubledDenom))
         IN  IF r = denominator
             THEN PyInt(IF q % 2 = 0 THEN q ELSE q + 1)
             ELSE PyInt(IF r < denominator THEN q ELSE q + 1)

\* ut.scale: shift a mantissa by precision_delta decimal digits
ut_scale(mantissa, precision_delta) ==
    IF precision_delta >= 0
    THEN PyInt(mantissa * Pow10(precision_delta))
    ELSE banker_division(mantissa, Pow10(-precision_delta))

(* ------------------------------ decorators ---------------------------- *)

check_operand(self, other, valid_types, operation, method) ==
    IF other.kind \notin ({"QInt"} \cup valid_types)
    THEN QIntTypeError(operation)
    ELSE method

require_same_precision_swapped(self, other, method) ==
    IF other.kind = "QInt" /\ self.precision # other.precision
    THEN QIntPrecisionError(other.precision, self.precision)
    ELSE method

require_same_precision(self, other, method) ==
    IF other.kind = "QInt" /\ self.precision # other.precision
    THEN QIntPrecisionError(self.precision, other.precision)
    ELSE method

Scalar == {"int", "Fraction"}

(* -------------------------------- QInt --------------------------------- *)

scale_inverted(self, targ) ==
    IF targ = <<>> \/ targ[1] = self.precision
    THEN self
    ELSE LET value == ut_scale(self.value, self.precision - targ[1])
         IN  IF value.kind = "int" THEN QInt(value.value, targ[1]) ELSE value

scale(self, targ) ==
    IF targ = <<>> \/ targ[1] = self.precision
    THEN self
    ELSE LET value == ut_scale(self.value, targ[1] - self.precision)
         IN  IF value.kind = "int" THEN QInt(value.value, targ[1]) ELSE value

__add__(self, other) ==
    check_operand(self, other, {"int"}, "__add__",
        require_same_precision(self, other,
            IF other.kind = "QInt"
            THEN QInt(self.value + other.value, self.precision)
            ELSE QInt(self.value + other.value, self.precision)))

add_scale_operands(self, other, targ) ==
    check_operand(self, other, {}, "add",
        LET a == scale(self, targ)
            b == scale(other, targ)
        IN  IF a.kind = "QInt" /\ b.kind = "QInt" THEN __add__(a, b)
            ELSE IF a.kind = "QInt" THEN b ELSE a)

add(self, other, targ) ==
    check_operand(self, other, {}, "add",
        LET r == __add__(self, other)
        IN  IF r.kind = "QInt" THEN scale(r, targ) ELSE r)

__sub__(self, other) ==
    check_operand(self, other, {"int"}, "__sub__",
        require_same_precision(self, other,
            IF other.kind = "QInt"
            THEN QInt(self.value - other.value, self.precision)
            ELSE QInt(self.value - other.value, self.precision)))

sub(self, other, targ) ==
    check_operand(self, other, {}, "sub",
        LET r == __sub__(self, other)
        IN  IF r.kind = "QInt" THEN scale(r, targ) ELSE r)

__mul__(self, other) ==
    check_operand(self, other, Scalar, "__mul__",
        IF other.kind = "QInt"
        THEN QInt(self.value * other.value, self.precision + other.precision)
        ELSE IF other.kind = "Fraction"
        THEN LET value == banker_division(self.value * other.numerator, other.denominator)
             IN  IF value.kind = "int" THEN QInt(value.value, self.precision) ELSE value
        ELSE QInt(self.value * other.value, self.precision))

mul(self, other, targ) ==
    check_operand(self, other, {}, "mul",
        LET r == __mul__(self, other)
        IN  IF r.kind = "QInt" THEN scale(r, targ) ELSE r)

__truediv__(self, other) ==
    check_operand(self, other, Scalar, "__truediv__",
        IF other.kind = "QInt"
        THEN LET value == banker_division(self.value, other.value)
             IN  IF value.kind = "int"
                 THEN QInt(value.value, self.precision - other.precision)
                 ELSE value
        ELSE IF other.kind = "Fraction"
        THEN LET value == banker_division(self.value * other.denominator, other.numerator)
             IN  IF value.kind = "int" THEN QInt(value.value, self.precision) ELSE value
        ELSE LET value == banker_division(self.value, other.value)
             IN  IF value.kind = "int" THEN QInt(value.value, self.precision) ELSE value)

div(self, other, targ) ==
    check_operand(self, other, {}, "div",
        LET div_prec == IF targ # <<>> THEN <<other.precision + targ[1]>> ELSE <<>>
            scaled == scale(self, div_prec)
        IN  IF scaled.kind = "QInt" THEN __truediv__(scaled, other) ELSE scaled)

__floordiv__(self, other) ==
    check_operand(self, other, Scalar, "__floordiv__",
        IF other.kind = "QInt"
        THEN IF other.value = 0 THEN ZeroDivisionError
             ELSE QInt(PyFloorDiv(self.value, other.value),
                       self.precision - other.precision)
        ELSE IF other.kind = "Fraction"
        THEN IF other.numerator = 0 THEN ZeroDivisionError
             ELSE QInt(PyFloorDiv(self.value * other.denominator, other.numerator),
                       self.precision)
        ELSE IF other.value = 0 THEN ZeroDivisionError
             ELSE QInt(PyFloorDiv(self.value, other.value), self.precision))

mod_zero_is_zero(self, other) ==
    check_operand(self, other, {}, "__mod__",
        require_same_precision(self, other,
            IF other.value = 0 THEN QInt(0, self.precision)
            ELSE QInt(PyMod(self.value, other.value), self.precision)))

__mod__(self, other) ==
    check_operand(self, other, {}, "__mod__",
        require_same_precision(self, other,
            IF other.value = 0 THEN ZeroDivisionError
            ELSE QInt(PyMod(self.value, other.value), self.precision)))

__pow__(self, other) ==
    IF other.kind = "QInt" THEN TypeError
    ELSE IF other.kind = "int"
    THEN IF other.value >= 0
         THEN QInt(IntPow(self.value, other.value), self.precision * other.value)
         ELSE IF self.value = 0 THEN ZeroDivisionError
         ELSE QIntFloatValue(IntPow(self.value, -other.value),
                             self.precision * other.value)
    ELSE PyNone

__neg__(self) == QInt(-self.value, self.precision)

__pos__(self) == QInt(self.value, self.precision)

__abs__(self) == QInt(Abs(self.value), self.precision)

__eq__(self, obj) ==
    check_operand(self, obj, {}, "__eq__",
        require_same_precision(self, obj, PyBool(self.value = obj.value)))

__ne__(self, obj) ==
    check_operand(self, obj, {}, "__ne__",
        require_same_precision(self, obj, PyBool(self.value # obj.value)))

__gt__(self, obj) ==
    check_operand(self, obj, {}, "__gt__",
        require_same_precision(self, obj, PyBool(self.value > obj.value)))

__ge__(self, obj) ==
    check_operand(self, obj, {}, "__ge__",
        require_same_precision(self, obj, PyBool(self.value >= obj.value)))

__lt__(self, obj) ==
    check_operand(self, obj, {}, "__lt__",
        require_same_precision(self, obj, PyBool(self.value < obj.value)))

__le__(self, obj) ==
    check_operand(self, obj, {}, "__le__",
        require_same_precision(self, obj, PyBool(self.value <= obj.value)))

(* ------------------- mantissas beyond the model checker's ints -------- *)
(* value: int is a Python int, which has no width.  To follow mantissas    *)
(* past 2^63 they are kept here as sign and magnitude, the magnitude a     *)
(* little-endian sequence of 15-bit limbs without leading zero limbs (zero *)
(* is <<>>, never negative).                                               *)

LimbBits == 15

LimbBase == 2 ^ LimbBits

RECURSIVE Strip(_)
Strip(m) ==
    IF m = <<>> THEN <<>>
    ELSE IF m[Len(m)] = 0 THEN Strip(SubSeq(m, 1, Len(m) - 1)) ELSE m

RECURSIVE MagAddCarry(_, _, _)
MagAddCarry(a, b, carry) ==
    IF a = <<>> /\ b = <<>>
    THEN IF carry = 0 THEN <<>> ELSE <<carry>>
    ELSE LET x == IF a = <<>> THEN 0 ELSE Head(a)
             y == IF b = <<>> THEN 0 ELSE Head(b)
             t == x + y + carry
         IN  <<t % LimbBase>> \o
             MagAddCarry(IF a = <<>> THEN <<>> ELSE Tail(a),
                         IF b = <<>> THEN <<>> ELSE Tail(b),
                         t \div LimbBase)

MagAdd(a, b) == MagAddCarry(a, b, 0)

RECURSIVE MagLess(_, _)
\* a < b as magnitudes
MagLess(a, b) ==
    IF Len(a) # Len(b) THEN Len(a) < Len(b)
    ELSE IF a = <<>> THEN FALSE
    ELSE IF a[Len(a)] # b[Len(b)] THEN a[Len(a)] < b[Len(b)]
    ELSE MagLess(SubSeq(a, 1, Len(a) - 1), SubSeq(b, 1, Len(b) - 1))

RECURSIVE MagSubBorrow(_, _, _)
\* a - b for a >= b, before stripping
MagSubBorrow(a, b, borrow) ==
    IF a = <<>> THEN <<>>
    ELSE LET y == IF b = <<>> THEN 0 ELSE Head(b)
             t == Head(a) - y - borrow
         IN  <<t % LimbBase>> \o
             MagSubBorrow(Tail(a), IF b = <<>> THEN <<>> ELSE Tail(b),
                          IF t < 0 THEN 1 ELSE 0)

MagSub(a, b) == Strip(MagSubBorrow(a, b, 0))

RECURSIVE MagMulLimb(_, _, _)
MagMulLimb(a, d, carry) ==
    IF a = <<>>
    THEN IF carry = 0 THEN <<>> ELSE <<carry % LimbBase>> \o
                                     MagMulLimb(<<>>, d, carry \div LimbBase)
    ELSE LET t == Head(a) * d + carry
         IN  <<t % LimbBase>> \o MagMulLimb(Tail(a), d, t \div LimbBase)

RECURSIVE MagMul(_, _)
MagMul(a, b) ==
    IF a = <<>> \/ b = <<>> THEN <<>>
    ELSE Strip(MagAdd(MagMulLimb(b, Head(a), 0), <<0>> \o MagMul(Tail(a), b)))

Big(neg, mag) == [neg |-> neg /\ mag # <<>>, mag |-> mag]

RECURSIVE MagOfNat(_)
MagOfNat(n) == IF n = 0 THEN <<>> ELSE <<n % LimbBase>> \o MagOfNat(n \div LimbBase)

\* the Python int n
BigOfInt(n) == Big(n < 0, MagOfNat(Abs(n)))

BigNeg(x) == Big(~x.neg, x.mag)

\* Python's int + int
BigAdd(x, y) ==
    IF x.neg = y.neg THEN Big(x.neg, MagAdd(x.mag, y.mag))
    ELSE IF MagLess(x.mag, y.mag) THEN Big(y.neg, MagSub(y.mag, x.mag))
    ELSE Big(x.neg, MagSub(x.mag, y.mag))

\* Python's int - int
BigSub(x, y) == BigAdd(x, BigNeg(y))

\* Python's int * int
BigMul(x, y) == Big(x.neg # y.neg, MagMul(x.mag, y.mag))

RECURSIVE BigPow(_, _)
\* Python's int ** non-negative int
BigPow(x, e) == IF e = 0 THEN BigOfInt(1) ELSE BigMul(x, BigPow(x, e - 1))

RECURSIVE MagResidue(_, _)
MagResidue(m, modulus) ==
    IF m = <<>> THEN 0
    ELSE (Head(m) + LimbBase * MagResidue(Tail(m), modulus)) % modulus

\* x mod modulus, in 0..modulus-1
Residue(x, modulus) ==
    IF x.neg THEN (modulus - MagResidue(x.mag, modulus)) % modulus
    ELSE MagResidue(x.mag, modulus)

\* 2^k as limbs: k \div LimbBits zero limbs below the limb 2^(k % LimbBits)
TwoTo(k) ==
    Big(FALSE, [i \in 1..(k \div LimbBits) |-> 0] \o <<2 ^ (k % LimbBits)>>)

\* x fits a signed 64-bit integer: -2^63 <= x <= 2^63 - 1
InInt64(x) ==
    \/ MagLess(x.mag, TwoTo(63).mag)
    \/ x.neg /\ x.mag = TwoTo(63).mag

OverflowError == [kind |-> "OverflowError"]

\* the same operations as above, on mantissas of any size

wide_ut_scale(mantissa, precision_delta) ==
    \* the precision_delta >= 0 branch; wide values are only ever scaled up
    BigMul(mantissa, BigPow(BigOfInt(10), precision_delta))

wide_scale(self, targ) ==
    IF targ = <<>> \/ targ[1] = self.precision
    THEN self
    ELSE QInt(wide_ut_scale(self.value, targ[1] - self.precision), targ[1])

wide_add(self, other) ==
    check_operand(self, other, {"int"}, "__add__",
        require_same_precision(self, other,
            IF other.kind = "QInt"
            THEN QInt(BigAdd(self.value, other.value), self.precision)
            ELSE QInt(BigAdd(self.value, other.value), self.precision)))

wide_sub(self, other) ==
    check_operand(self, other, {"int"}, "__sub__",
        require_same_precision(self, other,
            IF other.kind = "QInt"
            THEN QInt(BigSub(self.value, other.value), self.precision)
            ELSE QInt(BigSub(self.value, other.value), self.precision)))

wide_mul_checked(self, other) ==
    check_operand(self, other, Scalar, "__mul__",
        LET product == BigMul(self.value, other.value)
        IN  IF ~InInt64(product) THEN OverflowError
            ELSE IF other.kind = "QInt"
            THEN QInt(product, self.precision + other.precision)
            ELSE QInt(product, self.precision))

\* the QInt and int branches; the callers below hand it no Fraction
wide_mul(self, other) ==
    check_operand(self, other, Scalar, "__mul__",
        IF other.kind = "QInt"
        THEN QInt(BigMul(self.value, other.value), self.precision + other.precision)
        ELSE QInt(BigMul(self.value, other.value), self.precision))

\* the QInt branch and the int branch for exponents >= 0
wide_pow(self, other) ==
    IF other.kind = "QInt" THEN TypeError
    ELSE IF other.kind = "int"
    THEN QInt(BigPow(self.value, other.value), self.precision * other.value)
    ELSE PyNone

(* ------------------------- the caller's operands ---------------------- *)

QIntOperands ==
    {QInt(v, p) : v \in -MaxOperand..MaxOperand, p \in 0..MaxPrec}

IntOperands == {PyInt(v) : v \in -MaxOperand..MaxOperand}

\* fractions.Fraction keeps itself in lowest terms with a positive denominator
FractionOperands ==
    {Fraction(n, d) : <<n, d>> \in
        {nd \in (-MaxOperand..MaxOperand) \X (1..MaxOperand) :
            Gcd(Abs(nd[1]), nd[2]) = 1}}

\* what the caller hands to an operator that takes a QInt, an int or a Fraction
Operands == QIntOperands \cup IntOperands \cup FractionOperands \cup {PyFloat}

\* ... to an operator that takes a QInt or an int
IntegralOperands ==
    QIntOperands \cup IntOperands \cup {Fraction(1, 2), PyFloat}

\* ... to an operator or method that takes a QInt only
QIntOnlyOperands ==
    QIntOperands \cup {PyInt(0), PyInt(2), Fraction(0, 1), Fraction(1, 2), PyFloat}

Exponents ==
    {PyInt(e) : e \in -MaxExp..MaxExp} \cup {QInt(2, 0), Fraction(1, 2), PyFloat}

\* an optional target precision: <<>> is None
Targs == {<<>>} \cup {<<t>> : t \in 0..MaxTarg}

NoOperand == [kind |-> "absent"]

\* the values the caller goes on computing with
Kept(out) ==
    /\ out.kind = "QInt"
    /\ Abs(out.value) <= MaxMantissa
    /\ out.precision \in -MaxPrec..(MaxPrec + MaxTarg)

Idle(a) ==
    [op |-> "none", self |-> a, other |-> NoOperand, targ |-> <<>>, out |-> a]

\* one call on acc: QInt is immutable, the call leaves acc as it is
Call(op, other, targ, out) ==
    /\ pc = "ready"
    /\ pc' = "returned"
    /\ last' = [op |-> op, self |-> acc, other |-> other, targ |-> targ, out |-> out]
    /\ origin' = IF op = "scale" THEN origin ELSE <<>>
    /\ UNCHANGED <<acc, wacc, wlast, wsteps>>

(* ------------------------------- actions ------------------------------ *)

Add == \E other \in IntegralOperands : Call("__add__", other, <<>>, __add__(acc, other))

Sub == \E other \in IntegralOperands : Call("__sub__", other, <<>>, __sub__(acc, other))

Mul == \E other \in Operands : Call("__mul__", other, <<>>, __mul__(acc, other))

TrueDiv ==
    \E other \in Operands : Call("__truediv__", other, <<>>, __truediv__(acc, other))

FloorDiv ==
    \E other \in Operands : Call("__floordiv__", other, <<>>, __floordiv__(acc, other))

Mod == \E other \in QIntOnlyOperands : Call("__mod__", other, <<>>, __mod__(acc, other))

Pow == \E other \in Exponents : Call("__pow__", other, <<>>, __pow__(acc, other))

Neg == Call("__neg__", NoOperand, <<>>, __neg__(acc))

Pos == Call("__pos__", NoOperand, <<>>, __pos__(acc))

AbsOf == Call("__abs__", NoOperand, <<>>, __abs__(acc))

Scale == \E targ \in Targs : Call("scale", NoOperand, targ, scale(acc, targ))

AddTo ==
    \E other \in QIntOnlyOperands, targ \in Targs : Call("add", other, targ, add(acc, other, targ))

SubFrom ==
    \E other \in QIntOnlyOperands, targ \in Targs : Call("sub", other, targ, sub(acc, other, targ))

MulBy ==
    \E other \in QIntOnlyOperands, targ \in Targs : Call("mul", other, targ, mul(acc, other, targ))

DivBy ==
    \E other \in QIntOnlyOperands, targ \in Targs : Call("div", other, targ, div(acc, other, targ))

Eq == \E other \in QIntOnlyOperands : Call("__eq__", other, <<>>, __eq__(acc, other))

Ne == \E other \in QIntOnlyOperands : Call("__ne__", other, <<>>, __ne__(acc, other))

Gt == \E other \in QIntOnlyOperands : Call("__gt__", other, <<>>, __gt__(acc, other))

Ge == \E other \in QIntOnlyOperands : Call("__ge__", other, <<>>, __ge__(acc, other))

Lt == \E other \in QIntOnlyOperands : Call("__lt__", other, <<>>, __lt__(acc, other))

Le == \E other \in QIntOnlyOperands : Call("__le__", other, <<>>, __le__(acc, other))

\* the caller binds the returned QInt and goes on with it; origin remembers
\* the scale call a value came from
Keep ==
    /\ pc = "returned"
    /\ Kept(last.out)
    /\ acc' = last.out
    /\ origin' = IF last.op = "scale" THEN <<last>> ELSE <<>>
    /\ last' = Idle(last.out)
    /\ pc' = "ready"
    /\ UNCHANGED <<wacc, wlast, wsteps>>

WideIdle == [op |-> "none"]

Init ==
    /\ acc \in {QInt(v, p) : v \in -MaxMantissa..MaxMantissa, p \in 0..MaxPrec}
    /\ pc = "ready"
    /\ last = Idle(acc)
    /\ origin = <<>>
    /\ wacc = QInt(BigOfInt(0), 0)
    /\ wlast = WideIdle
    /\ wsteps = 0

Next ==
    \/ Add \/ Sub \/ Mul \/ TrueDiv \/ FloorDiv \/ Mod \/ Pow
    \/ Neg \/ Pos \/ AbsOf \/ Scale
    \/ AddTo \/ SubFrom \/ MulBy \/ DivBy
    \/ Eq \/ Ne \/ Gt \/ Ge \/ Lt \/ Le
    \/ Keep

Spec == Init /\ [][Next]_vars

(* --------------------- the caller with wide mantissas ------------------ *)

\* mantissas around the ends of the signed 64-bit range, and small ones
WideValues ==
    {BigOfInt(v) : v \in -MaxWideSmall..MaxWideSmall} \cup
    {TwoTo(62),
     BigSub(TwoTo(63), BigOfInt(1)),
     BigNeg(TwoTo(63))}

WideOperands ==
    {QInt(v, p) : v \in WideValues, p \in 0..MaxPrec} \cup
    {PyInt(v) : v \in WideValues} \cup {PyFloat}

WideExponents == {PyInt(e) : e \in 0..MaxExp} \cup {QInt(BigOfInt(2), 0), PyFloat}

WideCall(op, other, targ, out) ==
    /\ pc = "ready"
    /\ pc' = "returned"
    /\ wlast' = [op |-> op, self |-> wacc, other |-> other, targ |-> targ, out |-> out]
    /\ UNCHANGED <<acc, last, origin, wacc, wsteps>>

WideAdd == \E other \in WideOperands \cup {Fraction(1, 2)} :
    WideCall("__add__", other, <<>>, wide_add(wacc, other))

WideSub == \E other \in WideOperands \cup {Fraction(1, 2)} :
    WideCall("__sub__", other, <<>>, wide_sub(wacc, other))

WideMul == \E other \in WideOperands :
    WideCall("__mul__", other, <<>>, wide_mul(wacc, other))

WidePow == \E other \in WideExponents :
    WideCall("__pow__", other, <<>>, wide_pow(wacc, other))

WideScale ==
    \E targ \in {<<>>} \cup {<<t>> : t \in wacc.precision..(MaxPrec + MaxTarg)} :
        WideCall("scale", NoOperand, targ, wide_scale(wacc, targ))

WideKeep ==
    /\ pc = "returned"
    /\ wsteps < MaxWideSteps
    /\ wlast.out.kind = "QInt"
    /\ wlast.out.precision <= MaxPrec
    /\ Len(wlast.out.value.mag) <= MaxWideLimbs
    /\ wacc' = wlast.out
    /\ wlast' = WideIdle
    /\ wsteps' = wsteps + 1
    /\ pc' = "ready"
    /\ UNCHANGED <<acc, last, origin>>

InitWide ==
    /\ acc = QInt(0, 0)
    /\ pc = "ready"
    /\ last = Idle(acc)
    /\ origin = <<>>
    /\ wacc \in {QInt(v, p) : v \in WideValues, p \in 0..MaxPrec}
    /\ wlast = WideIdle
    /\ wsteps = 0

NextWide ==
    \/ WideAdd \/ WideSub \/ WideMul \/ WidePow \/ WideScale
    \/ WideKeep

SpecWide == InitWide /\ [][NextWide]_vars

(* ------------------------------ properties ---------------------------- *)

\* q is the integer nearest to n / d, an exact half going to the even neighbour
IsNearestEven(q, n, d) ==
    LET twice == 2 * Abs(q * d - n)
    IN  twice < Abs(d) \/ (twice = Abs(d) /\ q % 2 = 0)

\* v is the mantissa m moved by delta decimal digits: exactly when delta >= 0,
\* rounded once half-to-even when delta < 0
Rescaled(v, m, delta) ==
    IF delta >= 0 THEN v = m * Pow10(delta) ELSE IsNearestEven(v, m, Pow10(-delta))

Returned(ops) == pc = "returned" /\ last.op \in ops

PrecisionsDiffer ==
    last.other.kind = "QInt" /\ last.other.precision # last.self.precision

ZeroDivisor(o) ==
    \/ o.kind \in {"QInt", "int"} /\ o.value = 0
    \/ o.kind = "Fraction" /\ o.numerator = 0

\* C1: a.div(b, targ) with b's mantissa non-zero and targ given returns a QInt
\* of precision targ whose mantissa is the exact quotient a / b times 10^targ,
\* rounded once half-to-even, for every combination of the three precisions.
\* Stated for the divisors of positive mantissa, so that what it shows is div's
\* own rounding and not banker_division's handling of a negative denominator
\* (C2), which breaks the negative ones already.
DivPreScaleLaw ==
    (Returned({"div"}) /\ last.other.kind = "QInt" /\ last.other.value > 0
        /\ last.targ # <<>>) =>
        LET e == last.targ[1] + last.other.precision - last.self.precision
            n == IF e >= 0 THEN last.self.value * Pow10(e) ELSE last.self.value
            d == IF e >= 0 THEN last.other.value ELSE last.other.value * Pow10(-e)
        IN  /\ last.out.kind = "QInt"
            /\ last.out.precision = last.targ[1]
            /\ IsNearestEven(last.out.value, n, d)

\* C2: banker_division(n, d) is the integer nearest to n / d, an exact half
\* going to the even neighbour, for every n and every non-zero d of either sign
\* (here: the mantissa divided by an int), and on the four quoted examples.
BankersDivideNearestEven ==
    /\ banker_division(5, 2) = PyInt(2)
    /\ banker_division(15, 2) = PyInt(8)
    /\ banker_division(25, 2) = PyInt(12)
    /\ banker_division(-5, 2) = PyInt(-2)
    /\ (Returned({"__truediv__"}) /\ last.other.kind = "int" /\ last.other.value # 0) =>
        /\ last.out.kind = "QInt"
        /\ IsNearestEven(last.out.value, last.self.value, last.other.value)

\* C3: starting from values of precision >= 0, every value an operator, scale
\* or a scale-then-combine method returns has precision >= 0.
PrecisionNonNegative ==
    /\ acc.precision >= 0
    /\ (pc = "returned" /\ last.out.kind \in {"QInt", "QInt(float)"}) =>
        last.out.precision >= 0

SamePrecisionOps ==
    {"__add__", "__sub__", "__mod__", "__eq__", "__ne__", "__lt__", "__le__",
     "__gt__", "__ge__", "add", "sub"}

\* C4: add, sub, mod, the six comparisons and add / sub with a target raise
\* QIntPrecisionError(self.precision, other.precision) when the other QInt's
\* precision differs, whatever the mantissas; they never raise it when the
\* precisions are equal; multiplication and division never raise it.
PrecisionMismatchRejection ==
    /\ (Returned(SamePrecisionOps) /\ PrecisionsDiffer) =>
        last.out = QIntPrecisionError(last.self.precision, last.other.precision)
    /\ (Returned(SamePrecisionOps) /\ ~PrecisionsDiffer) =>
        last.out.kind # "QIntPrecisionError"
    /\ Returned({"__mul__", "__truediv__", "__floordiv__", "mul", "div"}) =>
        last.out.kind # "QIntPrecisionError"

PrecisionMismatchWitness ==
    /\ Returned({"__add__"})
    /\ last.self.precision = 0
    /\ last.other = QInt(1, 1)
    /\ last.out = QIntPrecisionError(0, 1)

\* C5 as stated: truediv, floordiv, mod and div(other, targ) fail with
\* ZeroDivisionError whenever the divisor is a QInt of mantissa 0, the int 0
\* or a Fraction of numerator 0, for every precision combination.
ZeroDenominatorAlways ==
    (Returned({"__truediv__", "__floordiv__", "__mod__", "div"})
        /\ ZeroDivisor(last.other)) =>
        last.out = ZeroDivisionError

\* C5 as amended: a zero divisor never yields a value.  truediv and floordiv
\* raise ZeroDivisionError for a zero QInt, int or Fraction; div raises it for
\* a zero QInt; mod raises it for a zero QInt of the same precision.  A zero
\* QInt of another precision makes mod raise QIntPrecisionError, and a zero
\* int or Fraction makes mod and div raise QIntTypeError: the operand checks
\* come first.
ZeroDenominatorAfterChecks ==
    (pc = "returned" /\ ZeroDivisor(last.other)) =>
        /\ Returned({"__truediv__", "__floordiv__"}) => last.out = ZeroDivisionError
        /\ (Returned({"div"}) /\ last.other.kind = "QInt") =>
            last.out = ZeroDivisionError
        /\ (Returned({"__mod__"}) /\ last.other.kind = "QInt" /\ ~PrecisionsDiffer) =>
            last.out = ZeroDivisionError
        /\ (Returned({"__mod__"}) /\ PrecisionsDiffer) =>
            last.out = QIntPrecisionError(last.self.precision, last.other.precision)
        /\ (Returned({"__mod__", "div"}) /\ last.other.kind # "QInt") =>
            last.out = QIntTypeError(last.op)

ZeroDenominatorWitness ==
    /\ Returned({"__mod__"})
    /\ last.self = QInt(7, 1)
    /\ last.other = QInt(0, 1)
    /\ last.out = ZeroDivisionError

\* C6: add and sub have an entry point that takes two QInts of different
\* precisions p1, p2 and returns the exact sum / difference at precision
\* max(p1, p2), the operand of smaller precision scaled up by a power of ten.
ScaleSafeCombination ==
    (Returned({"__add__", "add", "__sub__", "sub"}) /\ last.targ = <<>>
        /\ PrecisionsDiffer) =>
        LET p == Max(last.self.precision, last.other.precision)
            a == last.self.value * Pow10(p - last.self.precision)
            b == last.other.value * Pow10(p - last.other.precision)
        IN  last.out = QInt(IF last.op \in {"__add__", "add"} THEN a + b ELSE a - b, p)

\* C8: a ** e returns QInt(mantissa^e, precision * e) for an int e, and raises
\* a typed error for an exponent of any other kind.
PowIntegerExponentOnly ==
    Returned({"__pow__"}) =>
        /\ (last.other.kind = "int" /\ last.other.value >= 0) =>
            last.out = QInt(IntPow(last.self.value, last.other.value),
                            last.self.precision * last.other.value)
        /\ last.other.kind # "int" => Raised(last.out)

BaseResult ==
    CASE last.op = "add" -> __add__(last.self, last.other)
      [] last.op = "sub" -> __sub__(last.self, last.other)
      [] last.op = "mul" -> __mul__(last.self, last.other)

ScaleRoundTrip ==
    /\ (Returned({"scale"}) /\ last.targ # <<>>
            /\ last.targ[1] >= last.self.precision) =>
        last.out = QInt(last.self.value * Pow10(last.targ[1] - last.self.precision),
                        last.targ[1])
    /\ (Returned({"scale"}) /\ origin # <<>>) =>
        LET up == origin[1]
        IN  (up.targ # <<>> /\ up.targ[1] >= up.self.precision
                /\ last.self = up.out /\ last.targ = <<up.self.precision>>) =>
                last.out = up.self

ScaleRoundTripWitness ==
    /\ Returned({"scale"})
    /\ origin # <<>>
    /\ origin[1].self = QInt(-1, 0)
    /\ origin[1].targ = <<1>>
    /\ last.self = QInt(-10, 1)
    /\ last.targ = <<0>>
    /\ last.out = QInt(-1, 0)

(* ------------------------ properties, wide mantissas ------------------- *)

WideReturned(ops) == pc = "returned" /\ wlast.op \in ops

WideArithmetic == {"__add__", "__sub__", "__mul__", "__pow__", "scale"}

Moduli == {8191, 32749}

\* the operand checks of the call in wlast pass
WideChecksPass ==
    CASE wlast.op \in {"__add__", "__sub__"} ->
            /\ wlast.other.kind \in {"QInt", "int"}
            /\ wlast.other.kind = "QInt" => wlast.other.precision = wlast.self.precision
      [] wlast.op = "__mul__" -> wlast.other.kind \in {"QInt", "int"}
      [] wlast.op = "__pow__" -> wlast.other.kind = "int"
      [] wlast.op = "scale" -> TRUE

RECURSIVE PowMod(_, _, _)
PowMod(a, e, m) == IF e = 0 THEN 1 % m ELSE (a * PowMod(a, e - 1, m)) % m

\* the residue of the exact result of the call in wlast
ExactResidue(m) ==
    LET a == Residue(wlast.self.value, m)
    IN  CASE wlast.op = "__add__" -> (a + Residue(wlast.other.value, m)) % m
          [] wlast.op = "__sub__" -> (a + m - Residue(wlast.other.value, m)) % m
          [] wlast.op = "__mul__" -> (a * Residue(wlast.other.value, m)) % m
          [] wlast.op = "__pow__" -> PowMod(a, wlast.other.value, m)
          [] wlast.op = "scale" ->
                IF wlast.targ = <<>> THEN a
                ELSE (a * (Pow10(wlast.targ[1] - wlast.self.precision) % m)) % m

====
